---------------------------- MODULE Spec2Model ----------------------------
(***************************************************************************)
(* ultrabase64 (src/src/lib.rs): Base64 encode/decode entry points, the    *)
(* rayon chunk encoder, the crossbeam pipeline encoder and the streaming   *)
(* file codec.                                                             *)
(*                                                                         *)
(* Bytes are integers 0..255.  Text is a sequence of one-character         *)
(* strings.  The size constants of lib.rs are multiples of 1024 * 1024;    *)
(* the model keeps every ratio between them and scales the unit (MiB).     *)
(***************************************************************************)
EXTENDS Integers, Sequences, FiniteSets, TLC

VARIABLES
    input,      \* bytes handed to the last encode call (or the file content)
    encoded,    \* what the last encode entry point returned
    decoded     \* what the last decode call returned

entry_vars == <<input, encoded, decoded>>

\* One call of encode_pipeline, step by step
VARIABLES
    main_pc,        \* where the calling thread is
    next_chunk,     \* i of the send loop, lib.rs:180
    work_q,         \* jobs in the work channel
    work_open,      \* work_sender not yet dropped
    wpc,            \* per worker: "idle", "recv", "encode", "exited", "panicked"
    wjob,           \* per worker: the job it holds
    result_q,       \* results in the result channel
    output_buffer,  \* lib.rs:151
    received,       \* iterations done of the collect loop, lib.rs:193
    pipe_out,       \* the String returned
    reordered,      \* history: some result was received out of index order
    write_count     \* history: per byte of output_buffer, the writes it got

pipe_vars == <<main_pc, next_chunk, work_q, work_open, wpc, wjob, result_q,
               output_buffer, received, pipe_out, reordered, write_count>>

\* One call of encode_file_streaming
VARIABLES
    file_pc,        \* "idle", "start", "loop", "done"
    reader_pos,     \* bytes of the input file consumed by the reader
    bytes_read,     \* what the last reader.read returned
    remainder,      \* lib.rs:484
    written,        \* everything handed to writer.write_all, in order
    total_bytes,    \* lib.rs:481
    file_ret,       \* the count returned, -1 before the return
    carried         \* history: some read began with a non-empty remainder

file_vars == <<file_pc, reader_pos, bytes_read, remainder, written,
               total_bytes, file_ret, carried>>

\* One call of decode_file_streaming
VARIABLES
    d_pc,           \* "idle", "start", "loop", "done", "failed"
    d_file,         \* content of the input file, a text
    d_reader_pos,   \* characters of the input file consumed by the reader
    base64_str,     \* the block handed to the decoder last, lib.rs:581
    d_written,      \* everything handed to writer.write_all, in order
    d_total_bytes,  \* lib.rs:569
    d_ret,          \* the count returned, -1 before the return
    d_err,          \* "none", "InvalidUtf8", "InvalidBase64"
    d_short         \* history: some read returned less than it could have

dfile_vars == <<d_pc, d_file, d_reader_pos, base64_str, d_written,
                d_total_bytes, d_ret, d_err, d_short>>

vars == <<entry_vars, pipe_vars, file_vars, dfile_vars>>

---------------------------------------------------------------------------
(* Size constants, lib.rs:14-25 and 125-127 *)

\* The unit 1024 * 1024 of lib.rs, scaled.  7 keeps 1024 * 1024 % 3 = 1 and
\* makes the 3-aligned chunk (6 bytes) longer than one 3-byte group, so a
\* shorter last chunk exists.
MiB == 7

MULTITHREAD_THRESHOLD == MiB
MIN_CHUNK_SIZE == MiB
MAX_THREADS == 8
MAX_INPUT_SIZE == 100 * MiB
LARGE_THRESHOLD == 20 * MiB
CHUNK_SIZE == MiB
NUM_WORKERS == 4
CHUNK_SIZE_ALIGNED == (CHUNK_SIZE \div 3) * 3

---------------------------------------------------------------------------
(* The base64 crate's engines: STANDARD (padded) and NO_PAD *)

Alphabet ==
    << "A","B","C","D","E","F","G","H","I","J","K","L","M",
       "N","O","P","Q","R","S","T","U","V","W","X","Y","Z",
       "a","b","c","d","e","f","g","h","i","j","k","l","m",
       "n","o","p","q","r","s","t","u","v","w","x","y","z",
       "0","1","2","3","4","5","6","7","8","9","+","/" >>

AlphabetSet == { Alphabet[k] : k \in 1..64 }

PAD == "="

Pow2(e) == CASE e = 0 -> 1 [] e = 2 -> 4 [] e = 4 -> 16 [] e = 6 -> 64
             [] e = 8 -> 256 [] e = 10 -> 1024

\* The k-th (0-based) 6-bit group of the bit string of bytes b, zero-filled
\* past the last byte.
Sextet(b, k) ==
    LET i  == (6 * k) \div 8
        o  == (6 * k) % 8
        hi == b[i + 1]
        lo == IF i + 2 <= Len(b) THEN b[i + 2] ELSE 0
    IN  ((hi * 256 + lo) \div Pow2(10 - o)) % 64

NoPadLen(n) == (n \div 3) * 4 + (CASE n % 3 = 0 -> 0 [] n % 3 = 1 -> 2 [] n % 3 = 2 -> 3)

\* get_no_pad_engine().encode(b)
NoPadEncode(b) == [k \in 1..NoPadLen(Len(b)) |-> Alphabet[Sextet(b, k - 1) + 1]]

\* Mutant: the padded engine leaves the padding out.
StdEncode_Unpadded(b) == NoPadEncode(b)

\* general_purpose::STANDARD.encode(b)
StdEncode(b) ==
    LET np == NoPadEncode(b)
    IN  [k \in 1..(((Len(b) + 2) \div 3) * 4) |-> IF k <= Len(np) THEN np[k] ELSE PAD]

SextetOf(c) == CHOOSE s \in 0..63 : Alphabet[s + 1] = c

\* Number of trailing padding characters the STANDARD engine accepts (0..2).
PadCount(t) ==
    LET n == Len(t)
    IN  IF n >= 1 /\ t[n] = PAD
        THEN (IF n >= 2 /\ t[n - 1] = PAD THEN 2 ELSE 1)
        ELSE 0

\* The k-th (0-based) byte of the bit string of the sextets of t.
DecodedByte(t, j) ==
    LET k  == (8 * j) \div 6
        o  == (8 * j) % 6
        s0 == SextetOf(t[k + 1])
        s1 == SextetOf(t[k + 2])
    IN  ((s0 * 64 + s1) \div Pow2(4 - o)) % 256

\* Whether general_purpose::STANDARD.decode accepts t: canonical padding
\* (length a multiple of 4), alphabet characters only before the padding,
\* no non-zero trailing bits.
StdDecodeOk(t) ==
    LET n == Len(t)
        p == PadCount(t)
    IN  /\ n % 4 = 0
        /\ \A k \in 1..(n - p) : t[k] \in AlphabetSet
        /\ p = 2 => SextetOf(t[n - 2]) % 16 = 0
        /\ p = 1 => SextetOf(t[n - 1]) % 4 = 0

\* general_purpose::STANDARD.decode(t), for an accepted t
StdDecode(t) ==
    [j \in 1..((Len(t) \div 4) * 3 - PadCount(t)) |-> DecodedByte(t, j - 1)]


---------------------------------------------------------------------------
(* Helpers on sequences *)

Min(a, b) == IF a <= b THEN a ELSE b
Max(a, b) == IF a >= b THEN a ELSE b

\* slice.par_chunks(size) / slice.chunks(size): consecutive pieces of `size`
\* elements, the last one possibly shorter.
\* Mutant: a shorter last piece is left out.
ParChunks_Exact(s, size) ==
    [i \in 1..(Len(s) \div size) |-> SubSeq(s, (i - 1) * size + 1, i * size)]

\* slice::par_chunks(size): consecutive pieces of the given size, the last
\* one shorter when the length is not a multiple of it.
ParChunks(s, size) ==
    [i \in 1..((Len(s) + size - 1) \div size) |->
        SubSeq(s, (i - 1) * size + 1, Min(i * size, Len(s)))]

\* The concatenation of a sequence of sequences, in index order (by halves,
\* to keep the evaluation shallow).
RECURSIVE Flatten(_)
Flatten(parts) ==
    IF Len(parts) = 0 THEN <<>>
    ELSE IF Len(parts) = 1 THEN parts[1]
    ELSE LET h == Len(parts) \div 2
         IN  Flatten(SubSeq(parts, 1, h)) \o Flatten(SubSeq(parts, h + 1, Len(parts)))

\* usize::clamp(lo, hi)
Clamp(x, lo, hi) == Max(lo, Min(x, hi))

---------------------------------------------------------------------------
(* encode_multithreaded, lib.rs:54-105 *)

\* Mutant: the tail goes through the no-padding engine like the chunks.
TailEncoded_NoPad(tail_part) ==
    IF Len(tail_part) # 0 THEN NoPadEncode(tail_part) ELSE <<>>

\* The tail (0..2 bytes) is encoded with the padded engine, lib.rs:87-91 and
\* 143-147.
TailEncoded(tail_part) ==
    IF Len(tail_part) # 0 THEN StdEncode(tail_part) ELSE <<>>

\* Mutant: the chunk size is not rounded down to a multiple of 3.
MtChunkSize_Unaligned == MIN_CHUNK_SIZE

\* lib.rs:76
MtChunkSize == (MIN_CHUNK_SIZE \div 3) * 3

\* Mutant: one chunk's worth of input is enough to chunk.
MtFallsBack_OneChunk(main_part_len) == main_part_len < MIN_CHUNK_SIZE

\* lib.rs:64-68: the encoder declines to chunk a short main part.
MtFallsBack(main_part_len) == main_part_len < MIN_CHUNK_SIZE * 2

\* Orders in which the pool may get to the chunks.
EncodeOrders == {"ascending", "descending"}

Turn(order, n) ==
    CASE order = "ascending"  -> [k \in 1..n |-> k]
      [] order = "descending" -> [k \in 1..n |-> n + 1 - k]

\* lib.rs:80-83: par_chunks(..).map(encode).collect() into a Vec.  The chunks
\* are encoded in the turn the pool takes them; each result goes to the place
\* of its chunk.
ParEncode(chunks, order) ==
    LET n    == Len(chunks)
        turn == Turn(order, n)
    IN  [i \in 1..n |-> LET k == CHOOSE t \in 1..n : turn[t] = i
                        IN  NoPadEncode(chunks[turn[k]])]

\* Returns the text together with the path taken and the number of chunks.
\* The thread count is accepted and not used (lib.rs:52-54).
encode_multithreaded(in, num_threads) ==
    LET len           == Len(in)
        remainder_len == len % 3
        main_part_len == len - remainder_len
        main_part     == SubSeq(in, 1, main_part_len)
        tail_part     == SubSeq(in, main_part_len + 1, len)
        chunks        == ParChunks(main_part, MtChunkSize)
        encoded_parts == ParEncode(chunks, "ascending")
    IN  IF len = 0
        THEN [text |-> <<>>, path |-> "empty", nchunks |-> 0]
        ELSE IF MtFallsBack(main_part_len)
        THEN [text |-> StdEncode(in), path |-> "sequential", nchunks |-> 0]
        ELSE [text    |-> Flatten(encoded_parts) \o TailEncoded(tail_part),
              path    |-> "chunked",
              nchunks |-> Len(chunks)]

---------------------------------------------------------------------------
(* encode_pipeline, lib.rs:117-211: jobs, results and the output buffer *)

\* vec![0u8; n]: a buffer of n zero bytes.
NUL == "NUL"
ZeroBuffer(n) == [k \in 1..n |-> NUL]

\* lib.rs:139
\* Mutant: the shorter last chunk is not counted.
NumChunks_Floor(main_part_len) == main_part_len \div CHUNK_SIZE_ALIGNED

\* lib.rs:139
NumChunks(main_part_len) ==
    (main_part_len + CHUNK_SIZE_ALIGNED - 1) \div CHUNK_SIZE_ALIGNED

\* Mutant: the output offset is the input offset.
PipeJob_InputOffset(i, main_part_len) ==
    LET start == i * CHUNK_SIZE_ALIGNED
        end   == Min(start + CHUNK_SIZE_ALIGNED, main_part_len)
    IN  [chunk_idx     |-> i,
         input_offset  |-> start,
         input_len     |-> end - start,
         output_offset |-> start]

\* lib.rs:181-186: the job of chunk i (0-based).
PipeJob(i, main_part_len) ==
    LET start == i * CHUNK_SIZE_ALIGNED
        end   == Min(start + CHUNK_SIZE_ALIGNED, main_part_len)
    IN  [chunk_idx     |-> i,
         input_offset  |-> start,
         input_len     |-> end - start,
         output_offset |-> (start \div 3) * 4]

\* lib.rs:166-174: what a worker sends back for a job.
WorkerEncode(main_part, job) ==
    [chunk_idx     |-> job.chunk_idx,
     output_offset |-> job.output_offset,
     encoded_data  |-> NoPadEncode(SubSeq(main_part, job.input_offset + 1,
                                          job.input_offset + job.input_len))]

\* Mutant: the data is appended to the buffer.
WriteAt_Append(buf, off, data) == buf \o data

\* buf[off .. off + data.len()].copy_from_slice(data), lib.rs:196-197, 206
WriteAt(buf, off, data) ==
    SubSeq(buf, 1, off) \o data \o SubSeq(buf, off + Len(data) + 1, Len(buf))

\* lib.rs:193-199 for one received result
CollectOne(buf, res) == WriteAt(buf, res.output_offset, res.encoded_data)

\* lib.rs:193-199: the buffer after the results were written one after the
\* other in the order received; a position holds what the last write that
\* covers it put there.
Covers(res, k) ==
    res.output_offset < k /\ k <= res.output_offset + Len(res.encoded_data)

CollectAll(buf, results) ==
    [k \in 1..Len(buf) |->
        LET writers == { i \in 1..Len(results) : Covers(results[i], k) }
            last    == CHOOSE i \in writers : \A j \in writers : j <= i
        IN  IF writers = {} THEN buf[k]
            ELSE CollectOne(buf, results[last])[k]]

\* lib.rs:204-207
AppendTail(buf, main_output_len, tail_encoded) ==
    IF Len(tail_encoded) # 0 THEN WriteAt(buf, main_output_len, tail_encoded) ELSE buf

\* lib.rs:133: short inputs are encoded in one pass.
PipeFallsBack(main_part_len) == main_part_len < CHUNK_SIZE * NUM_WORKERS

\* Orders in which the results of n jobs may reach the collector, used where
\* the whole call is one step: ascending and descending.
ArrivalOrders == {"fifo", "lifo"}
Arrival(order, n) ==
    CASE order = "fifo" -> [k \in 1..n |-> k - 1]
      [] order = "lifo" -> [k \in 1..n |-> n - k]

\* The whole call with the results arriving in the given order.
encode_pipeline(in, order) ==
    LET n               == Len(in)
        remainder_len   == n % 3
        main_part_len   == n - remainder_len
        main_part       == SubSeq(in, 1, main_part_len)
        tail_part       == SubSeq(in, main_part_len + 1, n)
        num_chunks      == NumChunks(main_part_len)
        main_output_len == (main_part_len \div 3) * 4
        tail_encoded    == TailEncoded(tail_part)
        total_output_len == main_output_len + Len(tail_encoded)
        arrival         == Arrival(order, num_chunks)
        results         == [k \in 1..num_chunks |->
                               WorkerEncode(main_part, PipeJob(arrival[k], main_part_len))]
        collected       == CollectAll(ZeroBuffer(total_output_len), results)
    IN  IF n = 0
        THEN [text |-> <<>>, path |-> "empty", nchunks |-> 0]
        ELSE IF PipeFallsBack(main_part_len)
        THEN [text |-> StdEncode(in), path |-> "sequential", nchunks |-> 0]
        ELSE [text    |-> AppendTail(collected, main_output_len, tail_encoded),
              path    |-> "chunked",
              nchunks |-> num_chunks]

---------------------------------------------------------------------------
(* The Python entry points, lib.rs:232-434 *)

\* The record an encode entry point leaves: status "none" before any call.
EncodeReturn(status, op, threads, err, route, worked, r) ==
    [status |-> status, op |-> op, threads |-> threads, err |-> err,
     text |-> r.text, route |-> route, path |-> r.path, nchunks |-> r.nchunks,
     worked |-> worked]

Nothing(path) == [text |-> <<>>, path |-> path, nchunks |-> 0]

NoReturn(op) == EncodeReturn("none", op, 0, "none", "none", FALSE, Nothing("none"))

\* Mutant: the limit itself is rejected.
InputTooLarge_Inclusive(len) == len >= MAX_INPUT_SIZE

\* The size check every encode entry point makes first (lib.rs:237, 273,
\* 313, 345, 419).
InputTooLarge(len) == len > MAX_INPUT_SIZE

\* Err(PyValueError("Input too large ...")), returned before allow_threads
EncodeErr(op, threads) ==
    EncodeReturn("err", op, threads, "TooLarge", "none", FALSE, Nothing("none"))

\* Ok(text), returned from inside allow_threads
EncodeOk(op, threads, route, r) ==
    EncodeReturn("ok", op, threads, "none", route, TRUE, r)

Sequential(data) == [text |-> StdEncode(data), path |-> "sequential", nchunks |-> 0]

\* get_optimal_threads(), lib.rs:45-47
get_optimal_threads(cpus) == Min(cpus, MAX_THREADS)

\* lib.rs:245 and 281: the two-way routing of encode and encode_bytes
EncodeRoute(len) ==
    IF len < MULTITHREAD_THRESHOLD THEN "sequential" ELSE "encode_multithreaded"

\* Mutant: the pipeline tier is missing.
AutoRoute_TwoTiers(len) ==
    IF len < MULTITHREAD_THRESHOLD THEN "sequential" ELSE "encode_multithreaded"

\* lib.rs:355-364: the three-way routing of encode_auto
AutoRoute(len) ==
    IF len < MULTITHREAD_THRESHOLD THEN "sequential"
    ELSE IF len < LARGE_THRESHOLD THEN "encode_multithreaded"
    ELSE "encode_pipeline"

Dispatch(route, data, threads, order) ==
    CASE route = "sequential"           -> Sequential(data)
      [] route = "encode_multithreaded" -> encode_multithreaded(data, threads)
      [] route = "encode_pipeline"      -> encode_pipeline(data, order)

encode(data, cpus) ==
    IF InputTooLarge(Len(data)) THEN EncodeErr("encode", 0)
    ELSE LET route == EncodeRoute(Len(data))
         IN  EncodeOk("encode", 0, route,
                      Dispatch(route, data, get_optimal_threads(cpus), "fifo"))

\* The same as encode; the text is returned as its ASCII bytes.
encode_bytes(data, cpus) ==
    IF InputTooLarge(Len(data)) THEN EncodeErr("encode_bytes", 0)
    ELSE LET route == EncodeRoute(Len(data))
         IN  EncodeOk("encode_bytes", 0, route,
                      Dispatch(route, data, get_optimal_threads(cpus), "fifo"))

encode_pipeline_py(data, order) ==
    IF InputTooLarge(Len(data)) THEN EncodeErr("encode_pipeline_py", 0)
    ELSE EncodeOk("encode_pipeline_py", 0, "encode_pipeline",
                  encode_pipeline(data, order))

encode_auto(data, cpus, order) ==
    IF InputTooLarge(Len(data)) THEN EncodeErr("encode_auto", 0)
    ELSE LET route == AutoRoute(Len(data))
         IN  EncodeOk("encode_auto", 0, route,
                      Dispatch(route, data, get_optimal_threads(cpus), order))

\* Mutant: only the upper limit is applied.
ClampThreads_NoFloor(threads) == Min(threads, MAX_THREADS * 2)

\* lib.rs:425
ClampThreads(threads) == Clamp(threads, 1, MAX_THREADS * 2)

\* lib.rs:428
ThreadsRoute(num_threads, len) ==
    IF num_threads = 1 \/ len < MIN_CHUNK_SIZE THEN "sequential"
    ELSE "encode_multithreaded"

encode_with_threads(data, threads) ==
    IF InputTooLarge(Len(data)) THEN EncodeErr("encode_with_threads", threads)
    ELSE LET num_threads == ClampThreads(threads)
             route       == ThreadsRoute(num_threads, Len(data))
         IN  EncodeOk("encode_with_threads", threads, route,
                      Dispatch(route, data, num_threads, "fifo"))

\* Mutant: even lengths pass.
is_valid_base64_length_Even(len) == len % 2 = 0 \/ len = 0

\* lib.rs:214-216
is_valid_base64_length(len) == len % 4 = 0 \/ len = 0

\* The record decode leaves: status "none" before any call.
DecodeReturn(status, err, text, bytes, worked, of_encoder) ==
    [status |-> status, err |-> err, text |-> text, bytes |-> bytes,
     worked |-> worked, of_encoder |-> of_encoder]

NoDecode(text) == DecodeReturn("none", "none", text, <<>>, FALSE, FALSE)

\* Mutant: no size limit on the text.
decode_NoSizeCheck(data, of_encoder) ==
    IF ~is_valid_base64_length(Len(data))
    THEN DecodeReturn("err", "InvalidLength", data, <<>>, FALSE, of_encoder)
    ELSE IF ~StdDecodeOk(data)
    THEN DecodeReturn("err", "InvalidBase64", data, <<>>, TRUE, of_encoder)
    ELSE DecodeReturn("ok", "none", data, StdDecode(data), TRUE, of_encoder)

\* lib.rs:379-405.  of_encoder records that the text is the one the last
\* encode call returned.
decode(data, of_encoder) ==
    IF Len(data) > MAX_INPUT_SIZE
    THEN DecodeReturn("err", "TooLarge", data, <<>>, FALSE, of_encoder)
    ELSE IF ~is_valid_base64_length(Len(data))
    THEN DecodeReturn("err", "InvalidLength", data, <<>>, FALSE, of_encoder)
    ELSE IF ~StdDecodeOk(data)
    THEN DecodeReturn("err", "InvalidBase64", data, <<>>, TRUE, of_encoder)
    ELSE DecodeReturn("ok", "none", data, StdDecode(data), TRUE, of_encoder)

---------------------------------------------------------------------------
(* Inputs of the calls *)

\* Extra lengths explored past each size threshold.
Margin == 2

\* Byte sequences: an arithmetic progression mod 256 from a seed.
Pattern(n, seed, step) == [k \in 1..n |-> (seed + (k - 1) * step) % 256]

Near(x) == (x - Margin)..(x + Margin + 1)

EntryLens ==
    (0..(NUM_WORKERS * CHUNK_SIZE + CHUNK_SIZE_ALIGNED + Margin))
      \cup Near(LARGE_THRESHOLD)
      \cup Near((MAX_INPUT_SIZE \div 4) * 3)
      \cup Near(MAX_INPUT_SIZE)

\* The ASCII bytes of "", "f", "fo" and "foobar".
Vectors == { <<>>, <<102>>, <<102, 111>>, <<102, 111, 111, 98, 97, 114>> }

Inputs ==
    { Pattern(n, 77, 37) : n \in EntryLens } \cup { Pattern(n, 255, 0) : n \in EntryLens }
      \cup Vectors

\* Thread counts a caller may pass to encode_with_threads.
ThreadCounts == {0, 1, 2, MAX_THREADS * 2, MAX_THREADS * 2 + 1}

\* num_cpus::get() of the host.
HostCpus == 4

\* Texts handed to decode that no encoder produced: alphabet text, and the
\* same with padding or a foreign character put in.
AlphaText(n, seed) == [k \in 1..n |-> Alphabet[((seed + 5 * k) % 64) + 1]]

TextLens == (0..9) \cup Near(MAX_INPUT_SIZE)

Mangled(t) ==
    LET n == Len(t)
    IN  {t} \cup (IF n = 0 THEN {}
                  ELSE { [t EXCEPT ![n] = PAD], [t EXCEPT ![1] = PAD],
                         [t EXCEPT ![n] = "!"],
                         [k \in 1..n |-> IF k >= n - 1 THEN PAD ELSE t[k]],
                         [k \in 1..n |-> PAD] })

Texts == UNION { Mangled(AlphaText(n, seed)) : n \in TextLens, seed \in {0, 17} }

---------------------------------------------------------------------------
(* The values the variables of a part hold while another part is explored *)

Workers == 1..NUM_WORKERS

NoJob == [chunk_idx |-> 0, input_offset |-> 0, input_len |-> 0, output_offset |-> 0]

PipeIdle ==
    /\ main_pc = "idle"
    /\ next_chunk = 0
    /\ work_q = <<>>
    /\ work_open = FALSE
    /\ wpc = [w \in Workers |-> "idle"]
    /\ wjob = [w \in Workers |-> NoJob]
    /\ result_q = <<>>
    /\ output_buffer = <<>>
    /\ received = 0
    /\ pipe_out = <<>>
    /\ reordered = FALSE
    /\ write_count = <<>>

FileIdle ==
    /\ file_pc = "idle"
    /\ reader_pos = 0
    /\ bytes_read = 0
    /\ remainder = <<>>
    /\ written = <<>>
    /\ total_bytes = 0
    /\ file_ret = -1
    /\ carried = FALSE

DFileIdle ==
    /\ d_pc = "idle"
    /\ d_file = <<>>
    /\ d_reader_pos = 0
    /\ base64_str = <<>>
    /\ d_written = <<>>
    /\ d_total_bytes = 0
    /\ d_ret = -1
    /\ d_err = "none"
    /\ d_short = FALSE

---------------------------------------------------------------------------
(* encode_file_streaming, lib.rs:462-539: one loop iteration per step.  The *)
(* input file's content is `input`; a read returns at least one byte and at *)
(* most the buffer, until the end of the file, where it returns 0.          *)

\* lib.rs:479
EncodeBufferSize == MIN_CHUNK_SIZE

\* Longest file explored, in buffers.
MaxFileBuffers == 2

FileLens == 0..(MaxFileBuffers * EncodeBufferSize + Margin)

FileInputs ==
    { Pattern(n, 77, 37) : n \in FileLens } \cup { Pattern(n, 255, 0) : n \in FileLens }

\* Mutant: the carried bytes are dropped.
DataToProcess_NoCarry(rem, block) == block

\* lib.rs:508-510
DataToProcess(rem, block) == rem \o block

\* Mutant: everything read so far is encoded, aligned or not.
StreamMainLen_Whole(data) == Len(data)

\* lib.rs:513-514
StreamMainLen(data) == Len(data) - (Len(data) % 3)

\* lib.rs:517-523: what one iteration writes
StreamEncodeMain(data) ==
    IF StreamMainLen(data) > 0
    THEN NoPadEncode(SubSeq(data, 1, StreamMainLen(data)))
    ELSE <<>>

\* lib.rs:526-529
StreamRemainder(data) == SubSeq(data, StreamMainLen(data) + 1, Len(data))

\* lib.rs:495-501: what the end of the file writes
StreamEncodeLast(rem) == IF Len(rem) # 0 THEN StdEncode(rem) ELSE <<>>

FileInit ==
    /\ input \in FileInputs
    /\ encoded = NoReturn("none")
    /\ decoded = NoDecode(<<>>)
    /\ PipeIdle
    /\ file_pc = "start"
    /\ reader_pos = 0
    /\ bytes_read = 0
    /\ remainder = <<>>
    /\ written = <<>>
    /\ total_bytes = 0
    /\ file_ret = -1
    /\ carried = FALSE
    /\ DFileIdle

\* lib.rs:464-484: the files are opened, the buffer and the counters set up
FileEncOpen ==
    /\ file_pc = "start"
    /\ file_pc' = "loop"
    /\ UNCHANGED <<reader_pos, bytes_read, remainder, written, total_bytes,
                   file_ret, carried>>
    /\ UNCHANGED <<entry_vars, pipe_vars, dfile_vars>>

\* lib.rs:488-529: an iteration whose read returns n >= 1 bytes
FileEncRead ==
    /\ file_pc = "loop"
    /\ \E n \in 1..Min(EncodeBufferSize, Len(input) - reader_pos) :
          LET block == SubSeq(input, reader_pos + 1, reader_pos + n)
              data_to_process == DataToProcess(remainder, block)
          IN  /\ bytes_read' = n
              /\ reader_pos' = reader_pos + n
              /\ total_bytes' = total_bytes + n
              /\ written' = written \o StreamEncodeMain(data_to_process)
              /\ remainder' = StreamRemainder(data_to_process)
              /\ carried' = (carried \/ Len(remainder) > 0)
    /\ UNCHANGED <<file_pc, file_ret>>
    /\ UNCHANGED <<entry_vars, pipe_vars, dfile_vars>>

\* lib.rs:493-503 and 532-537: the read returns 0; the remainder is written
\* with padding, the writer flushed and the count returned
FileEncEof ==
    /\ file_pc = "loop"
    /\ reader_pos = Len(input)
    /\ bytes_read' = 0
    /\ written' = written \o StreamEncodeLast(remainder)
    /\ file_ret' = total_bytes
    /\ file_pc' = "done"
    /\ UNCHANGED <<reader_pos, remainder, total_bytes, carried>>
    /\ UNCHANGED <<entry_vars, pipe_vars, dfile_vars>>

FileNext ==
    \/ FileEncOpen
    \/ FileEncRead
    \/ FileEncEof

SpecFile == FileInit /\ [][FileNext]_vars

---------------------------------------------------------------------------
(* decode_file_streaming, lib.rs:550-608: one loop iteration per step.  The *)
(* input file's content is d_file, a text; a read returns at least one      *)
(* character and at most the buffer, until the end of the file, where it    *)
(* returns 0.  What is handed to the BufWriter reaches the output file when *)
(* the writer is flushed (lib.rs:601) or dropped on an error return.        *)

\* lib.rs:567
DecodeBufferSize == (MIN_CHUNK_SIZE \div 3) * 4

\* A byte that is not valid UTF-8 (std::str::from_utf8 fails on it).
BAD_UTF8 == "BAD_UTF8"

\* lib.rs:581-584
Utf8Ok(block) == \A k \in 1..Len(block) : block[k] # BAD_UTF8

\* Longest decoded content explored, in bytes.
MaxDecodedLen == 14

\* The text with its k-th character replaced by c.
Replaced(t, k, c) == [j \in 1..Len(t) |-> IF j = k THEN c ELSE t[j]]

\* Files handed to decode_file_streaming: the padded encodings of the byte
\* patterns, those with one character past the first buffer replaced by a
\* character outside the alphabet or by a byte that is not UTF-8, and those
\* with the last character cut off.
DFileValid == { StdEncode(Pattern(n, 77, 37)) : n \in 0..MaxDecodedLen }

DFileBroken ==
    UNION { { Replaced(t, DecodeBufferSize + 2, "!"),
              Replaced(t, DecodeBufferSize + 2, BAD_UTF8),
              SubSeq(t, 1, Len(t) - 1) } :
            t \in { u \in DFileValid : Len(u) >= DecodeBufferSize + 4 } }

DFileTexts == DFileValid \cup DFileBroken

DFileInit ==
    /\ input = <<>>
    /\ encoded = NoReturn("none")
    /\ decoded = NoDecode(<<>>)
    /\ PipeIdle
    /\ FileIdle
    /\ d_file \in DFileTexts
    /\ d_pc = "start"
    /\ d_reader_pos = 0
    /\ base64_str = <<>>
    /\ d_written = <<>>
    /\ d_total_bytes = 0
    /\ d_ret = -1
    /\ d_err = "none"
    /\ d_short = FALSE

\* lib.rs:552-569: the files are opened (the output created empty), the
\* buffer and the counter set up
FileDecOpen ==
    /\ d_pc = "start"
    /\ d_pc' = "loop"
    /\ UNCHANGED <<d_file, d_reader_pos, base64_str, d_written, d_total_bytes,
                   d_ret, d_err, d_short>>
    /\ UNCHANGED <<entry_vars, pipe_vars, file_vars>>

\* Mutant: the decoded bytes of a block are held back, not written.
BlockWrite_Held(out, bytes) == out

\* lib.rs:595-598: writer.write_all(&decoded)
BlockWrite(out, bytes) == out \o bytes

\* lib.rs:572-598: an iteration whose read returns n >= 1 characters; the
\* block read is checked as UTF-8, decoded on its own and written
FileDecRead ==
    /\ d_pc = "loop"
    /\ \E n \in 1..Min(DecodeBufferSize, Len(d_file) - d_reader_pos) :
          LET block == SubSeq(d_file, d_reader_pos + 1, d_reader_pos + n)
          IN  /\ base64_str' = block
              /\ d_reader_pos' = d_reader_pos + n
              /\ d_short' = (d_short \/ n < Min(DecodeBufferSize, Len(d_file) - d_reader_pos))
              /\ IF ~Utf8Ok(block)
                 THEN /\ d_pc' = "failed"
                      /\ d_err' = "InvalidUtf8"
                      /\ UNCHANGED <<d_written, d_total_bytes>>
                 ELSE IF ~StdDecodeOk(block)
                 THEN /\ d_pc' = "failed"
                      /\ d_err' = "InvalidBase64"
                      /\ UNCHANGED <<d_written, d_total_bytes>>
                 ELSE /\ d_total_bytes' = d_total_bytes + Len(StdDecode(block))
                      /\ d_written' = BlockWrite(d_written, StdDecode(block))
                      /\ UNCHANGED <<d_pc, d_err>>
    /\ UNCHANGED <<d_file, d_ret>>
    /\ UNCHANGED <<entry_vars, pipe_vars, file_vars>>

\* lib.rs:577-579 and 601-606: the read returns 0; the writer is flushed and
\* the count returned
FileDecEof ==
    /\ d_pc = "loop"
    /\ d_reader_pos = Len(d_file)
    /\ d_ret' = d_total_bytes
    /\ d_pc' = "done"
    /\ UNCHANGED <<d_file, d_reader_pos, base64_str, d_written, d_total_bytes,
                   d_err, d_short>>
    /\ UNCHANGED <<entry_vars, pipe_vars, file_vars>>

DFileNext ==
    \/ FileDecOpen
    \/ FileDecRead
    \/ FileDecEof

SpecDFile == DFileInit /\ [][DFileNext]_vars

\* lib.rs:551-555: decode_file_streaming is called on the file that
\* encode_file_streaming wrote
FileDecOfEncoded ==
    /\ file_pc = "done"
    /\ d_pc = "idle"
    /\ d_file' = written
    /\ d_pc' = "start"
    /\ UNCHANGED <<d_reader_pos, base64_str, d_written, d_total_bytes, d_ret,
                   d_err, d_short>>
    /\ UNCHANGED <<entry_vars, pipe_vars, file_vars>>

\* A file is encoded, then the result decoded.
FilesNext ==
    \/ FileNext
    \/ FileDecOfEncoded
    \/ DFileNext

SpecFiles == FileInit /\ [][FilesNext]_vars

---------------------------------------------------------------------------
(* encode_pipeline step by step, lib.rs:117-211: the calling thread sends  *)
(* the jobs, drops the sender, receives num_chunks results and leaves the  *)
(* scope, which joins the workers; each worker loops on the work channel.  *)

\* Inputs of the stepwise call: the empty input, one just below the
\* fallback threshold, the shortest 3-aligned one at or above it, and one a
\* 3-byte group and a 1-byte tail longer.
PipeAligned == ((NUM_WORKERS * CHUNK_SIZE + 2) \div 3) * 3

PipeLens == {0, NUM_WORKERS * CHUNK_SIZE - 1, PipeAligned, PipeAligned + 4}

PipeInputs == { Pattern(n, 77, 37) : n \in PipeLens }

PipeInit ==
    /\ input \in PipeInputs
    /\ encoded = NoReturn("none")
    /\ decoded = NoDecode(<<>>)
    /\ main_pc = "start"
    /\ next_chunk = 0
    /\ work_q = <<>>
    /\ work_open = FALSE
    /\ wpc = [w \in Workers |-> "idle"]
    /\ wjob = [w \in Workers |-> NoJob]
    /\ result_q = <<>>
    /\ output_buffer = <<>>
    /\ received = 0
    /\ pipe_out = <<>>
    /\ reordered = FALSE
    /\ write_count = <<>>
    /\ FileIdle
    /\ DFileIdle

main_part_len == Len(input) - (Len(input) % 3)
main_part == SubSeq(input, 1, main_part_len)
tail_part == SubSeq(input, main_part_len + 1, Len(input))
num_chunks == NumChunks(main_part_len)
main_output_len == (main_part_len \div 3) * 4
total_output_len == main_output_len + Len(TailEncoded(tail_part))

\* History of lib.rs:196 and 206: the bytes off+1 .. off+len are written once more
CountWrite(count, off, len) ==
    [k \in DOMAIN count |-> IF off < k /\ k <= off + len THEN count[k] + 1 ELSE count[k]]

\* lib.rs:120-177: the early returns, the buffer, the channels, the workers
PipeStart ==
    /\ main_pc = "start"
    /\ IF Len(input) = 0
       THEN /\ main_pc' = "returned"
            /\ pipe_out' = <<>>
            /\ UNCHANGED <<output_buffer, work_open, wpc, write_count>>
       ELSE IF PipeFallsBack(main_part_len)
       THEN /\ main_pc' = "returned"
            /\ pipe_out' = StdEncode(input)
            /\ UNCHANGED <<output_buffer, work_open, wpc, write_count>>
       ELSE /\ main_pc' = "send"
            /\ output_buffer' = ZeroBuffer(total_output_len)
            /\ write_count' = [k \in 1..total_output_len |-> 0]
            /\ work_open' = TRUE
            /\ wpc' = [w \in Workers |-> "recv"]
            /\ UNCHANGED pipe_out
    /\ UNCHANGED <<next_chunk, work_q, wjob, result_q, received, reordered>>
    /\ UNCHANGED <<entry_vars, file_vars, dfile_vars>>

\* lib.rs:180-187: one iteration of the send loop
PipeSend ==
    /\ main_pc = "send"
    /\ next_chunk < num_chunks
    /\ work_q' = Append(work_q, PipeJob(next_chunk, main_part_len))
    /\ next_chunk' = next_chunk + 1
    /\ UNCHANGED <<main_pc, work_open, wpc, wjob, result_q, output_buffer,
                   received, pipe_out, reordered>>
    /\ UNCHANGED write_count
    /\ UNCHANGED <<entry_vars, file_vars, dfile_vars>>

\* Mutant: the collect loop is entered with work_sender still alive.
PipeDropSender_Kept ==
    /\ main_pc = "send"
    /\ next_chunk = num_chunks
    /\ main_pc' = "collect"
    /\ UNCHANGED <<next_chunk, work_q, work_open, wpc, wjob, result_q,
                   output_buffer, received, pipe_out, reordered>>
    /\ UNCHANGED write_count
    /\ UNCHANGED <<entry_vars, file_vars, dfile_vars>>

\* lib.rs:190: drop(work_sender)
PipeDropSender ==
    /\ main_pc = "send"
    /\ next_chunk = num_chunks
    /\ work_open' = FALSE
    /\ main_pc' = "collect"
    /\ UNCHANGED <<next_chunk, work_q, wpc, wjob, result_q, output_buffer,
                   received, pipe_out, reordered>>
    /\ UNCHANGED write_count
    /\ UNCHANGED <<entry_vars, file_vars, dfile_vars>>

\* lib.rs:166: work_rx.recv() returns a job
WorkerRecv(w) ==
    /\ wpc[w] = "recv"
    /\ Len(work_q) > 0
    /\ wjob' = [wjob EXCEPT ![w] = Head(work_q)]
    /\ work_q' = Tail(work_q)
    /\ wpc' = [wpc EXCEPT ![w] = "encode"]
    /\ UNCHANGED <<main_pc, next_chunk, work_open, result_q, output_buffer,
                   received, pipe_out, reordered>>
    /\ UNCHANGED write_count
    /\ UNCHANGED <<entry_vars, file_vars, dfile_vars>>

\* lib.rs:168-174: encode the chunk and send the result
WorkerSend(w) ==
    /\ wpc[w] = "encode"
    /\ result_q' = Append(result_q, WorkerEncode(main_part, wjob[w]))
    /\ wpc' = [wpc EXCEPT ![w] = "recv"]
    /\ wjob' = [wjob EXCEPT ![w] = NoJob]
    /\ UNCHANGED <<main_pc, next_chunk, work_q, work_open, output_buffer,
                   received, pipe_out, reordered>>
    /\ UNCHANGED write_count
    /\ UNCHANGED <<entry_vars, file_vars, dfile_vars>>

\* lib.rs:166: work_rx.recv() returns Err once the channel is empty and the
\* sender dropped; the loop ends and the worker's result_tx is dropped.
WorkerExit(w) ==
    /\ wpc[w] = "recv"
    /\ Len(work_q) = 0
    /\ ~work_open
    /\ wpc' = [wpc EXCEPT ![w] = "exited"]
    /\ UNCHANGED <<main_pc, next_chunk, work_q, work_open, wjob, result_q,
                   output_buffer, received, pipe_out, reordered>>
    /\ UNCHANGED write_count
    /\ UNCHANGED <<entry_vars, file_vars, dfile_vars>>

\* A worker panics while it holds a job (lib.rs:168-171); the job's result
\* is never sent and the worker's result_tx is dropped.
WorkerPanic(w) ==
    /\ wpc[w] = "encode"
    /\ wpc' = [wpc EXCEPT ![w] = "panicked"]
    /\ UNCHANGED <<main_pc, next_chunk, work_q, work_open, wjob, result_q,
                   output_buffer, received, pipe_out, reordered>>
    /\ UNCHANGED write_count
    /\ UNCHANGED <<entry_vars, file_vars, dfile_vars>>

\* Senders of the result channel still alive: result_sender itself, which
\* the calling thread keeps until the function returns, and one clone per
\* running worker.
ResultSenders ==
    1 + Cardinality({ w \in Workers : wpc[w] \in {"recv", "encode"} })

\* lib.rs:193-199: one iteration of the collect loop.  recv() blocks while
\* the channel is empty and a sender is alive; an Err is skipped.
PipeCollect ==
    /\ main_pc = "collect"
    /\ received < num_chunks
    /\ Len(result_q) > 0 \/ ResultSenders = 0
    /\ IF Len(result_q) > 0
       THEN /\ output_buffer' = CollectOne(output_buffer, Head(result_q))
            /\ write_count' = CountWrite(write_count, Head(result_q).output_offset,
                                         Len(Head(result_q).encoded_data))
            /\ result_q' = Tail(result_q)
            /\ reordered' = (reordered \/ Head(result_q).chunk_idx # received)
       ELSE UNCHANGED <<output_buffer, result_q, reordered, write_count>>
    /\ received' = received + 1
    /\ main_pc' = IF received + 1 = num_chunks THEN "join" ELSE "collect"
    /\ UNCHANGED <<next_chunk, work_q, work_open, wpc, wjob, pipe_out>>
    /\ UNCHANGED <<entry_vars, file_vars, dfile_vars>>

\* Mutant: the scope is left without waiting for the workers.
ScopeJoined_NoWait(pcs) == TRUE

\* lib.rs:159 and 201-202: crossbeam::scope returns once every thread spawned
\* in it has terminated.
ScopeJoined(pcs) == \A w \in Workers : pcs[w] \in {"exited", "panicked"}

\* lib.rs:201-210: the scope joins the workers; a panicked worker makes
\* expect() panic; otherwise the tail is written and the buffer returned.
PipeJoin ==
    /\ main_pc = "join"
    /\ ScopeJoined(wpc)
    /\ IF \E w \in Workers : wpc[w] = "panicked"
       THEN /\ main_pc' = "failed"
            /\ UNCHANGED <<output_buffer, pipe_out, write_count>>
       ELSE /\ main_pc' = "returned"
            /\ output_buffer' = AppendTail(output_buffer, main_output_len,
                                           TailEncoded(tail_part))
            /\ write_count' = IF Len(tail_part) # 0
                              THEN CountWrite(write_count, main_output_len,
                                              Len(TailEncoded(tail_part)))
                              ELSE write_count
            /\ pipe_out' = output_buffer'
    /\ UNCHANGED <<next_chunk, work_q, work_open, wpc, wjob, result_q,
                   received, reordered>>
    /\ UNCHANGED <<entry_vars, file_vars, dfile_vars>>

PipeNext ==
    \/ PipeStart
    \/ PipeSend
    \/ PipeDropSender
    \/ \E w \in Workers : WorkerRecv(w)
    \/ \E w \in Workers : WorkerSend(w)
    \/ \E w \in Workers : WorkerExit(w)
    \/ PipeCollect
    \/ PipeJoin

SpecPipe == PipeInit /\ [][PipeNext]_vars

\* Inputs of the fair runs: the empty one, the one below the fallback
\* threshold, and the one with more chunks than workers.
PipeLiveInit == PipeInit /\ Len(input) <= PipeAligned

\* No worker fails, and the call does not stop while one of its threads can
\* take a step.  A scheduler that is fair to each thread (the calling thread
\* and the NUM_WORKERS threads spawned at lib.rs:161-176) gives that: in a
\* state that no longer changes, a step that is possible stays possible for
\* the thread it belongs to.
SpecPipeLive == PipeLiveInit /\ [][PipeNext]_vars /\ WF_vars(PipeNext)

\* The same with worker failures.
PipeFaultNext ==
    \/ PipeStart
    \/ PipeSend
    \/ PipeDropSender
    \/ \E w \in Workers : WorkerRecv(w)
    \/ \E w \in Workers : WorkerSend(w)
    \/ \E w \in Workers : WorkerExit(w)
    \/ \E w \in Workers : WorkerPanic(w)
    \/ PipeCollect
    \/ PipeJoin

SpecPipeFault == PipeInit /\ [][PipeFaultNext]_vars

---------------------------------------------------------------------------
(* The entry points as calls: each call is one step.  The library keeps no *)
(* state between calls, so a behaviour is one encode call, optionally      *)
(* followed by decode of its result, or one decode call.                   *)

EntryInit ==
    /\ input = <<>>
    /\ encoded = NoReturn("none")
    /\ decoded = NoDecode(<<>>)
    /\ PipeIdle
    /\ FileIdle
    /\ DFileIdle

NoCallYet == encoded.status = "none" /\ decoded.status = "none"

CallEncode ==
    /\ NoCallYet
    /\ UNCHANGED <<pipe_vars, file_vars, dfile_vars>>
    /\ \E data \in Inputs :
        /\ input' = data
        /\ encoded' = encode(data, HostCpus)
        /\ decoded' = NoDecode(<<>>)

CallEncodeBytes ==
    /\ NoCallYet
    /\ UNCHANGED <<pipe_vars, file_vars, dfile_vars>>
    /\ \E data \in Inputs :
        /\ input' = data
        /\ encoded' = encode_bytes(data, HostCpus)
        /\ decoded' = NoDecode(<<>>)

CallEncodePipelinePy ==
    /\ NoCallYet
    /\ UNCHANGED <<pipe_vars, file_vars, dfile_vars>>
    /\ \E data \in Inputs, order \in ArrivalOrders :
        /\ input' = data
        /\ encoded' = encode_pipeline_py(data, order)
        /\ decoded' = NoDecode(<<>>)

CallEncodeAuto ==
    /\ NoCallYet
    /\ UNCHANGED <<pipe_vars, file_vars, dfile_vars>>
    /\ \E data \in Inputs, order \in ArrivalOrders :
        /\ input' = data
        /\ encoded' = encode_auto(data, HostCpus, order)
        /\ decoded' = NoDecode(<<>>)

CallEncodeWithThreads ==
    /\ NoCallYet
    /\ UNCHANGED <<pipe_vars, file_vars, dfile_vars>>
    /\ \E data \in Inputs, threads \in ThreadCounts :
        /\ input' = data
        /\ encoded' = encode_with_threads(data, threads)
        /\ decoded' = NoDecode(<<>>)

\* decode of a text of the caller's own
CallDecode ==
    /\ NoCallYet
    /\ UNCHANGED <<pipe_vars, file_vars, dfile_vars>>
    /\ \E t \in Texts :
        /\ decoded' = decode(t, FALSE)
        /\ input' = <<>>
        /\ encoded' = NoReturn("none")

\* decode of the text the last encode call returned
CallDecodeEncoded ==
    /\ encoded.status = "ok"
    /\ decoded.status = "none"
    /\ decoded' = decode(encoded.text, TRUE)
    /\ UNCHANGED <<input, encoded>>
    /\ UNCHANGED <<pipe_vars, file_vars, dfile_vars>>

EntryNext ==
    \/ CallEncode
    \/ CallEncodeBytes
    \/ CallEncodePipelinePy
    \/ CallEncodeAuto
    \/ CallEncodeWithThreads
    \/ CallDecode
    \/ CallDecodeEncoded

SpecEntry == EntryInit /\ [][EntryNext]_vars


\* One encode operation, either way of looking at it: an entry point called
\* in one step, or encode_pipeline step by step.
EncodeInit == EntryInit \/ PipeInit

EncodeNext ==
    \/ main_pc = "idle" /\ EntryNext
    \/ PipeNext

SpecEncode == EncodeInit /\ [][EncodeNext]_vars

---------------------------------------------------------------------------
(* Properties of the entry points (SpecEntry) *)

EncodeOps == {"encode", "encode_bytes", "encode_pipeline_py", "encode_auto",
              "encode_with_threads"}

\* Number of '=' the padding law gives an input of n bytes.
PadLaw(n) == CASE n % 3 = 0 -> 0 [] n % 3 = 1 -> 2 [] n % 3 = 2 -> 1

MainLen(n) == n - (n % 3)

\* C1: whichever encoder an entry point runs (one pass, the chunk encoder,
\* the pipeline, chunking or falling back), the text it returns is the
\* standard padded encoding of the whole input, and encode_multithreaded and
\* encode_pipeline called on that input return the same text.
C1_StrategiesAgree ==
    encoded.status = "ok" =>
        /\ encoded.text = StdEncode(input)
        /\ encode_multithreaded(input, HostCpus).text = encoded.text
        /\ \A order \in ArrivalOrders : encode_pipeline(input, order).text = encoded.text

\* The pipeline chunked an input whose last chunk is shorter and whose tail
\* is not empty.
C1_Witness ==
    /\ encoded.status = "ok"
    /\ encoded.route = "encode_pipeline"
    /\ encoded.path = "chunked"
    /\ encoded.nchunks >= 2
    /\ MainLen(Len(input)) % CHUNK_SIZE_ALIGNED # 0
    /\ Len(input) % 3 = 2
    /\ encoded.text = StdEncode(input)

\* C3 as stated: every input within the size limit is encoded, and decode of
\* the text returns the input.
C3_RoundTripAll ==
    /\ (encoded.status # "none" /\ Len(input) <= MAX_INPUT_SIZE) => encoded.status = "ok"
    /\ (decoded.status # "none" /\ decoded.of_encoder) =>
           (decoded.status = "ok" /\ decoded.bytes = input)

\* C3 amended: every input within the size limit is encoded; decode of the
\* text returns the input when the text itself is within the size limit
\* (4 * ceil(len / 3) <= MAX_INPUT_SIZE) and the TooLarge error otherwise.
C3_RoundTrip ==
    /\ (encoded.status # "none" /\ Len(input) <= MAX_INPUT_SIZE) => encoded.status = "ok"
    /\ (decoded.status # "none" /\ decoded.of_encoder) =>
           IF ((Len(input) + 2) \div 3) * 4 <= MAX_INPUT_SIZE
           THEN decoded.status = "ok" /\ decoded.bytes = input
           ELSE decoded.status = "err" /\ decoded.err = "TooLarge"

\* A chunked encoding with a padded tail was decoded back to the input.
C3_Witness ==
    /\ decoded.of_encoder
    /\ decoded.status = "ok"
    /\ decoded.bytes = input
    /\ encoded.path = "chunked"
    /\ Len(input) % 3 = 1

\* C5: decode answers TooLarge for a text longer than MAX_INPUT_SIZE and
\* InvalidLength for a non-empty text within the limit whose length is not a
\* multiple of 4, both before the decoder runs; any other text reaches the
\* decoder.
C5_DecodeValidation ==
    decoded.status # "none" =>
        LET n == Len(decoded.text)
        IN  /\ n > MAX_INPUT_SIZE =>
                (decoded.status = "err" /\ decoded.err = "TooLarge" /\ ~decoded.worked)
            /\ (n <= MAX_INPUT_SIZE /\ n # 0 /\ n % 4 # 0) =>
                (decoded.status = "err" /\ decoded.err = "InvalidLength" /\ ~decoded.worked)
            /\ (n <= MAX_INPUT_SIZE /\ (n = 0 \/ n % 4 = 0)) =>
                (decoded.worked /\ decoded.err \notin {"TooLarge", "InvalidLength"})

\* A text of length 4k + 2 was rejected for its length.
C5_Witness ==
    /\ decoded.status = "err"
    /\ decoded.err = "InvalidLength"
    /\ Len(decoded.text) % 4 = 2
    /\ ~decoded.worked

\* C6: each encode entry point answers TooLarge exactly when the input is
\* longer than MAX_INPUT_SIZE, and then no encoding was started.
C6_EncodeSizeLimit ==
    encoded.status # "none" =>
        /\ encoded.op \in EncodeOps
        /\ (encoded.status = "err") <=> (Len(input) > MAX_INPUT_SIZE)
        /\ encoded.status = "err" => (encoded.err = "TooLarge" /\ ~encoded.worked)
        /\ encoded.status = "ok" => encoded.worked

\* An input of exactly MAX_INPUT_SIZE bytes was encoded in chunks.
C6_Witness ==
    /\ encoded.status = "ok"
    /\ Len(input) = MAX_INPUT_SIZE
    /\ encoded.path = "chunked"

\* C7: the text ends in exactly 0, 2 or 1 '=' for an input length that is
\* 0, 1 or 2 mod 3, and holds no '=' anywhere else.
C7_PaddingLaw ==
    encoded.status = "ok" =>
        LET n == Len(encoded.text)
        IN  { k \in 1..n : encoded.text[k] = PAD } = ((n - PadLaw(Len(input)) + 1)..n)

\* The chunk encoder chunked an input with a 1-byte tail.
C7_Witness ==
    /\ encoded.status = "ok"
    /\ encoded.route = "encode_multithreaded"
    /\ encoded.path = "chunked"
    /\ encoded.nchunks >= 2
    /\ Len(input) % 3 = 1
    /\ PadCount(encoded.text) = 2

\* The three tiers the claim states.
ThreeTiers(len) ==
    IF len < MULTITHREAD_THRESHOLD THEN "sequential"
    ELSE IF len < 20 * MiB THEN "encode_multithreaded"
    ELSE "encode_pipeline"

TwoTiers(len) ==
    IF len < MULTITHREAD_THRESHOLD THEN "sequential" ELSE "encode_multithreaded"

\* C8 as stated: the size-routed entry points (encode, encode_bytes,
\* encode_auto) choose among three tiers by the input length.
C8_ThreeTiersEverywhere ==
    (encoded.status = "ok" /\ encoded.op \in {"encode", "encode_bytes", "encode_auto"}) =>
        encoded.route = ThreeTiers(Len(input))

\* C8 amended: encode_auto chooses among the three tiers by the input length;
\* encode and encode_bytes choose between two, one pass below
\* MULTITHREAD_THRESHOLD and the chunk encoder from there on, never the
\* pipeline.  The chunk encoder itself encodes in one pass while the
\* 3-aligned part of the input is shorter than 2 * MIN_CHUNK_SIZE.
C8_Routing ==
    encoded.status = "ok" =>
        /\ encoded.op = "encode_auto" => encoded.route = ThreeTiers(Len(input))
        /\ encoded.op \in {"encode", "encode_bytes"} =>
               encoded.route = TwoTiers(Len(input))
        /\ (encoded.op \in {"encode", "encode_bytes", "encode_auto"}
              /\ encoded.route = "encode_multithreaded") =>
               (encoded.path = "chunked" <=> MainLen(Len(input)) >= 2 * MIN_CHUNK_SIZE)
        /\ (encoded.op = "encode_auto" /\ encoded.route = "encode_pipeline") =>
               encoded.path = "chunked"

\* encode_auto sent an input of 20 MiB or more to the pipeline.
C8_Witness ==
    /\ encoded.status = "ok"
    /\ encoded.op = "encode_auto"
    /\ Len(input) >= 20 * MiB
    /\ encoded.route = "encode_pipeline"
    /\ encoded.path = "chunked"

\* The thread count after clamping into [1, 2 * MAX_THREADS].
Clamped(threads) ==
    IF threads < 1 THEN 1
    ELSE IF threads > 2 * MAX_THREADS THEN 2 * MAX_THREADS ELSE threads

\* C9 as stated: encode_with_threads encodes in one pass only when the
\* clamped count is 1 or the input is shorter than MIN_CHUNK_SIZE, and in
\* chunks otherwise.
C9_ChunksFromMinChunk ==
    (encoded.status = "ok" /\ encoded.op = "encode_with_threads") =>
        IF Clamped(encoded.threads) = 1 \/ Len(input) < MIN_CHUNK_SIZE
        THEN encoded.path = "sequential"
        ELSE encoded.path = "chunked"

\* C9 amended: encode_with_threads clamps the count into [1, 2 * MAX_THREADS]
\* and calls the chunk encoder unless the clamped count is 1 or the input is
\* shorter than MIN_CHUNK_SIZE; the input is encoded in chunks exactly when,
\* beyond that, its 3-aligned part is at least 2 * MIN_CHUNK_SIZE long, and
\* in one pass otherwise.
C9_WithThreads ==
    (encoded.status = "ok" /\ encoded.op = "encode_with_threads") =>
        LET direct == Clamped(encoded.threads) = 1 \/ Len(input) < MIN_CHUNK_SIZE
        IN  /\ encoded.route = IF direct THEN "sequential" ELSE "encode_multithreaded"
            /\ IF ~direct /\ MainLen(Len(input)) >= 2 * MIN_CHUNK_SIZE
               THEN encoded.path = "chunked"
               ELSE encoded.path = "sequential"

\* A count above the range was accepted and the input encoded in chunks.
C9_Witness ==
    /\ encoded.status = "ok"
    /\ encoded.op = "encode_with_threads"
    /\ encoded.threads > 2 * MAX_THREADS
    /\ encoded.path = "chunked"

\* A padding character before the last two places, or in the last place but
\* one with an alphabet character after it, or a character that is neither
\* of the alphabet nor the padding.
Malformed(t) ==
    \E k \in 1..Len(t) :
        \/ t[k] \notin AlphabetSet \cup {"="}
        \/ t[k] = "=" /\ k < Len(t) - 1
        \/ t[k] = "=" /\ k = Len(t) - 1 /\ t[Len(t)] # "="

\* C14: the boundary vectors.  Every encode entry point returns "" for the
\* empty input, "Zg==" for "f", "Zm8=" for "fo" and "Zm9vYmFy" for "foobar";
\* decode of a text that passes the size and length checks and is malformed
\* ("====" among them) returns the InvalidBase64 error and no bytes.
C14_BoundaryVectors ==
    /\ (encoded.status # "none" /\ input \in Vectors) =>
          /\ encoded.status = "ok"
          /\ input = <<>> => encoded.text = <<>>
          /\ input = <<102>> => encoded.text = <<"Z", "g", "=", "=">>
          /\ input = <<102, 111>> => encoded.text = <<"Z", "m", "8", "=">>
          /\ input = <<102, 111, 111, 98, 97, 114>> =>
                 encoded.text = <<"Z", "m", "9", "v", "Y", "m", "F", "y">>
    /\ (/\ decoded.status # "none"
        /\ Len(decoded.text) <= MAX_INPUT_SIZE
        /\ Len(decoded.text) % 4 = 0
        /\ Malformed(decoded.text)) =>
          /\ decoded.status = "err"
          /\ decoded.err = "InvalidBase64"
          /\ decoded.bytes = <<>>
    /\ (decoded.status # "none" /\ decoded.text = <<"=", "=", "=", "=">>) =>
          decoded.err = "InvalidBase64"

\* encode returned "Zg==" for "f".
C14_Witness ==
    /\ encoded.op = "encode"
    /\ input = <<102>>
    /\ encoded.text = <<"Z", "g", "=", "=">>

\* The thread count the entry point handed to encode_multithreaded.
PassedThreads ==
    IF encoded.op = "encode_with_threads" THEN Clamped(encoded.threads)
    ELSE Min(HostCpus, MAX_THREADS)

\* C17 as stated: the thread count passed in sets the chunking:
\* effective_threads = clamp(main / MIN_CHUNK_SIZE, 1, threads),
\* chunk_size = floor(main / effective_threads / 3) * 3, and one pass exactly
\* when main < MIN_CHUNK_SIZE * effective_threads.
C17_ThreadsSetChunks ==
    (encoded.status = "ok" /\ encoded.route = "encode_multithreaded" /\ Len(input) # 0) =>
        LET main              == MainLen(Len(input))
            effective_threads == Clamp(main \div MIN_CHUNK_SIZE, 1, PassedThreads)
            chunk_size        == ((main \div effective_threads) \div 3) * 3
        IN  IF main < MIN_CHUNK_SIZE * effective_threads
            THEN encoded.path = "sequential"
            ELSE /\ encoded.path = "chunked"
                 /\ encoded.nchunks = (main + chunk_size - 1) \div chunk_size

\* C17 amended: the thread count passed in plays no part.  The chunk encoder
\* encodes in one pass exactly when main < 2 * MIN_CHUNK_SIZE, and otherwise
\* in chunks of the fixed size floor(MIN_CHUNK_SIZE / 3) * 3, so in
\* ceil(main / chunk_size) chunks.
C17_FixedChunks ==
    (encoded.status = "ok" /\ encoded.route = "encode_multithreaded" /\ Len(input) # 0) =>
        LET main       == MainLen(Len(input))
            chunk_size == (MIN_CHUNK_SIZE \div 3) * 3
        IN  IF main < 2 * MIN_CHUNK_SIZE
            THEN encoded.path = "sequential" /\ encoded.nchunks = 0
            ELSE /\ encoded.path = "chunked"
                 /\ encoded.nchunks = (main + chunk_size - 1) \div chunk_size

\* encode_with_threads passed 2 threads for an input of at least four
\* chunks: the encoder made the chunks of the fixed size, not two halves.
C17_Witness ==
    /\ encoded.status = "ok"
    /\ encoded.op = "encode_with_threads"
    /\ encoded.threads = 2
    /\ encoded.route = "encode_multithreaded"
    /\ encoded.path = "chunked"
    /\ encoded.nchunks >= 4
    /\ encoded.nchunks = (MainLen(Len(input)) + CHUNK_SIZE_ALIGNED - 1) \div CHUNK_SIZE_ALIGNED

\* C18: in encode_multithreaded the chunks are consecutive ranges of
\* main = input[0 .. n - n % 3] that make it up, each a positive multiple of 3
\* long and all but the last of the chunk size; the tail has 0, 1 or 2 bytes;
\* the text is the encodings of the chunks in ascending chunk index, each at
\* 4/3 of its chunk's offset, followed by the padded tail, in whatever order
\* the chunks were encoded.
C18_ChunkPartition ==
    (encoded.status = "ok" /\ encoded.route = "encode_multithreaded"
                          /\ encoded.path = "chunked") =>
        LET n      == Len(input)
            main   == SubSeq(input, 1, n - (n % 3))
            tail   == SubSeq(input, n - (n % 3) + 1, n)
            chunks == ParChunks(main, MtChunkSize)
            start(i) == (i - 1) * MtChunkSize
        IN  /\ Len(chunks) = encoded.nchunks
            /\ Len(chunks) >= 2
            /\ \A i \in 1..Len(chunks) :
                  /\ Len(chunks[i]) > 0
                  /\ Len(chunks[i]) % 3 = 0
                  /\ i < Len(chunks) => Len(chunks[i]) = MtChunkSize
                  /\ Len(chunks[i]) <= MtChunkSize
                  /\ chunks[i] = SubSeq(input, start(i) + 1, start(i) + Len(chunks[i]))
                  /\ SubSeq(encoded.text, (start(i) \div 3) * 4 + 1,
                            ((start(i) + Len(chunks[i])) \div 3) * 4)
                        = NoPadEncode(chunks[i])
            /\ start(Len(chunks)) + Len(chunks[Len(chunks)]) = Len(main)
            /\ Len(main) % 3 = 0
            /\ Len(tail) \in {0, 1, 2}
            /\ SubSeq(encoded.text, (Len(main) \div 3) * 4 + 1, Len(encoded.text))
                  = TailEncoded(tail)
            /\ \A order \in EncodeOrders :
                  encoded.text = Flatten(ParEncode(chunks, order)) \o TailEncoded(tail)

\* The chunk encoder cut an input into three chunks or more, the last one
\* shorter, with a tail of 2 bytes.
C18_Witness ==
    /\ encoded.status = "ok"
    /\ encoded.route = "encode_multithreaded"
    /\ encoded.path = "chunked"
    /\ encoded.nchunks >= 3
    /\ MainLen(Len(input)) % MtChunkSize # 0
    /\ Len(input) % 3 = 2

---------------------------------------------------------------------------
(* Properties of the stepwise pipeline (SpecPipe, SpecPipeFault,        *)
(* SpecEncode)                                                           *)

\* C2: whatever the interleaving of the workers and the order in which the
\* results are received, the text encode_pipeline returns is the standard
\* padded encoding of the input.
C2_OrderIndependent ==
    main_pc = "returned" => pipe_out = StdEncode(input)

\* The call returned after receiving results out of index order, with a
\* shorter last chunk and a tail.
C2_Witness ==
    /\ main_pc = "returned"
    /\ reordered
    /\ received = num_chunks
    /\ num_chunks >= 2
    /\ main_part_len % CHUNK_SIZE_ALIGNED # 0
    /\ Len(tail_part) > 0
    /\ pipe_out = StdEncode(input)

\* A worker panicked and nothing can move any more: every worker has left
\* its loop or panicked and the result channel is empty.
PipeStuckAfterPanic ==
    /\ \E w \in Workers : wpc[w] = "panicked"
    /\ \A w \in Workers : wpc[w] \in {"exited", "panicked"}
    /\ Len(result_q) = 0

\* C10: a worker that panics before sending the result of its job makes the
\* call fail; no buffer with an unwritten chunk is returned, and the result
\* that never comes is answered with a failure, not waited for or skipped.
C10_FailureEscalated ==
    /\ main_pc = "returned" =>
           (\A k \in 1..Len(pipe_out) : pipe_out[k] # NUL)
    /\ PipeStuckAfterPanic => main_pc = "failed"

\* The part of C10 the code keeps: a returned buffer has no unwritten byte.
C10_NoPartialBuffer ==
    main_pc = "returned" =>
        (\A k \in 1..Len(pipe_out) : pipe_out[k] # NUL)

\* C11: encode_pipeline returns only after every worker it spawned has
\* terminated: once the call has returned no worker is running, none holds a
\* job (a slice of the input), and the work channel is empty.
C11_JoinBeforeReturn ==
    main_pc = "returned" =>
        /\ \A w \in Workers : wpc[w] \in {"idle", "exited"} /\ wjob[w] = NoJob
        /\ Len(input) # 0 /\ ~PipeFallsBack(main_part_len) =>
               \A w \in Workers : wpc[w] = "exited"

\* The call returned from the chunked path: the workers were spawned, all
\* results were received and all NUM_WORKERS workers have exited.
C11_Witness ==
    /\ main_pc = "returned"
    /\ received = num_chunks
    /\ num_chunks > NUM_WORKERS
    /\ \A w \in Workers : wpc[w] = "exited"

\* Where the jobs sent so far are: in the work channel, in a worker's hands,
\* in the result channel as a result, or received by the collector.
JobsAccounted ==
    Len(work_q) + Cardinality({ w \in Workers : wpc[w] = "encode" })
      + Len(result_q) + received

\* The call has come to its end: everything sent was taken, answered and
\* received, the channels are empty and the workers have left their loops.
PipeDone ==
    /\ main_pc = "returned"
    /\ Len(input) # 0 /\ ~PipeFallsBack(main_part_len) =>
          /\ next_chunk = num_chunks
          /\ received = num_chunks
          /\ Len(work_q) = 0
          /\ Len(result_q) = 0
          /\ \A w \in Workers : wpc[w] = "exited"

\* C21: when no worker fails and every thread is scheduled, encode_pipeline
\* terminates.  At every moment each job sent is in exactly one place (the
\* work channel, one worker, the result channel, or received), so it is taken
\* by exactly one worker and its result received once; no state short of the
\* return is without a step some thread can take; and the call does return,
\* with num_chunks results received and every worker out of its loop.
C21_PipelineTerminates ==
    /\ [](main_pc \in {"send", "collect", "join"} => JobsAccounted = next_chunk)
    /\ [](main_pc # "returned" => ENABLED PipeNext)
    /\ [](main_pc = "returned" => PipeDone)
    /\ <>PipeDone

\* The call returned from the chunked path with more chunks than workers:
\* all the jobs were sent, all the results received, the workers gone.
C21_Witness ==
    /\ PipeDone
    /\ num_chunks > NUM_WORKERS
    /\ next_chunk = num_chunks
    /\ \A w \in Workers : wpc[w] = "exited" /\ wjob[w] = NoJob
    /\ pipe_out = StdEncode(input)

\* The call is past its early returns: the buffer exists.
PipeChunked == Len(input) # 0 /\ ~PipeFallsBack(main_part_len)

\* Number of jobs in the work channel, jobs held by a worker and results in
\* the result channel whose output range contains byte k of the buffer, plus
\* the writes byte k has had.
Owners(k) ==
    Cardinality({ i \in 1..Len(work_q) :
                    /\ work_q[i].output_offset < k
                    /\ k <= work_q[i].output_offset + (work_q[i].input_len \div 3) * 4 })
    + Cardinality({ w \in Workers :
                    /\ wpc[w] = "encode"
                    /\ wjob[w].output_offset < k
                    /\ k <= wjob[w].output_offset + (wjob[w].input_len \div 3) * 4 })
    + Cardinality({ i \in 1..Len(result_q) :
                    /\ result_q[i].output_offset < k
                    /\ k <= result_q[i].output_offset + Len(result_q[i].encoded_data) })
    + write_count[k]

\* The jobs the workers have not answered yet.
JobsInFlight ==
    { work_q[i] : i \in 1..Len(work_q) } \cup { wjob[w] : w \in { v \in Workers : wpc[v] = "encode" } }

\* C15: every job sent has a length that is a positive multiple of 3 and
\* output_offset = input_offset / 3 * 4, and its output range lies inside the
\* buffer; the output ranges of the jobs are pairwise disjoint (no byte of
\* the buffer is ever owned or written twice) and, once all are sent, cover
\* exactly the first main_len / 3 * 4 bytes; with the tail write every byte of
\* the buffer has been written exactly once when the call returns.
C15_JobRanges ==
    PipeChunked /\ main_pc \notin {"start", "failed"} =>
        /\ \A j \in JobsInFlight :
              /\ j.input_len > 0
              /\ j.input_len % 3 = 0
              /\ j.output_offset = (j.input_offset \div 3) * 4
              /\ j.input_offset + j.input_len <= main_part_len
              /\ j.output_offset + (j.input_len \div 3) * 4 <= main_output_len
        /\ Len(write_count) = total_output_len
        /\ Len(output_buffer) = total_output_len
        /\ \A k \in 1..total_output_len :
              LET owners == Owners(k)
                  sent   == (Min(next_chunk * CHUNK_SIZE_ALIGNED, main_part_len) \div 3) * 4
              IN  CASE main_pc = "send" ->
                         owners = (IF k <= sent THEN 1 ELSE 0)
                    [] main_pc = "collect" ->
                         owners = (IF k <= main_output_len THEN 1 ELSE 0)
                    [] main_pc = "join" ->
                         /\ owners = (IF k <= main_output_len THEN 1 ELSE 0)
                         /\ write_count[k] = owners
                    [] main_pc = "returned" ->
                         /\ owners = 1
                         /\ write_count[k] = 1

\* The call returned after more jobs than workers, the last one shorter,
\* and a tail write; every byte of the buffer was written once.
C15_Witness ==
    /\ main_pc = "returned"
    /\ PipeChunked
    /\ num_chunks > NUM_WORKERS
    /\ main_part_len % CHUNK_SIZE_ALIGNED # 0
    /\ Len(tail_part) > 0
    /\ \A k \in 1..total_output_len : write_count[k] = 1

\* Length of the standard padded encoding of n bytes.
EncodedLen(n) == ((n + 2) \div 3) * 4

\* C19: whatever the strategy, the text returned for n bytes is
\* ceil(n / 3) * 4 characters long; in encode_pipeline the buffer has that
\* length, main_len / 3 * 4 plus the padded tail, from before the first job
\* is sent until it is returned.
C19_OutputLength ==
    /\ encoded.status = "ok" => Len(encoded.text) = EncodedLen(Len(input))
    /\ main_pc = "returned" => Len(pipe_out) = EncodedLen(Len(input))
    /\ (PipeChunked /\ main_pc \in {"send", "collect", "join", "returned"}) =>
          /\ Len(output_buffer) = EncodedLen(Len(input))
          /\ Len(output_buffer) =
                (main_part_len \div 3) * 4 + (IF Len(tail_part) # 0 THEN 4 ELSE 0)
          /\ Len(output_buffer) = total_output_len

\* The pipeline returned for an input with a 1-byte tail after all its
\* chunks were collected: the text has the length the buffer was given.
C19_Witness ==
    /\ main_pc = "returned"
    /\ PipeChunked
    /\ received = num_chunks
    /\ Len(tail_part) = 1
    /\ Len(pipe_out) = EncodedLen(Len(input))
    /\ Len(output_buffer) = Len(pipe_out)

---------------------------------------------------------------------------
(* Properties of the streaming file encoder (SpecFile) *)

\* C4: however the reads cut the file, what encode_file_streaming has
\* written when it returns is the standard padded encoding of the whole file.
C4_ChunkTransparent ==
    file_pc = "done" => written = StdEncode(input)

\* The call returned after reads that left bytes to carry, for a file whose
\* length is 1 mod 3 and needed more than two reads.
C4_Witness ==
    /\ file_pc = "done"
    /\ carried
    /\ Len(input) % 3 = 1
    /\ Len(input) > 2 * EncodeBufferSize
    /\ written = StdEncode(input)

\* Number of padding characters in a text.
Pads(t) == Cardinality({ k \in 1..Len(t) : t[k] = PAD })

\* C16: after every iteration the remainder is the last (bytes read so far
\* mod 3) bytes of what has been read, so 0, 1 or 2 bytes; everything written
\* before the end of the stream is free of '=' and a multiple of 4 long after
\* every write; padding comes only with the one write of the last remainder,
\* at the end of the stream.
C16_RemainderInvariant ==
    /\ file_pc \in {"loop", "done"} =>
          /\ Len(remainder) = reader_pos % 3
          /\ Len(remainder) \in {0, 1, 2}
          /\ remainder = SubSeq(input, reader_pos - (reader_pos % 3) + 1, reader_pos)
          /\ reader_pos = total_bytes
    /\ file_pc = "loop" =>
          /\ Len(written) % 4 = 0
          /\ Len(written) = (reader_pos \div 3) * 4
          /\ Pads(written) = 0
    /\ file_pc = "done" =>
          /\ Pads(written) = Pads(StreamEncodeLast(remainder))
          /\ Pads(SubSeq(written, 1, (Len(input) \div 3) * 4)) = 0
          /\ Len(written) = (Len(input) \div 3) * 4 + (IF Len(remainder) # 0 THEN 4 ELSE 0)

\* The call returned after a read that began with a remainder carried
\* over, for a file whose last remainder is 1 byte: the last write has two
\* padding characters, the only ones in the output.
C16_Witness ==
    /\ file_pc = "done"
    /\ carried
    /\ Len(remainder) = 1
    /\ Len(input) > EncodeBufferSize
    /\ Pads(written) = 2
    /\ written[Len(written)] = PAD

---------------------------------------------------------------------------
(* Properties of the streaming file decoder (SpecDFile) *)

\* C12: an operation that returns an invalid-input error has produced
\* nothing: decode returns no bytes with its error, and when
\* decode_file_streaming fails on a block nothing decoded from earlier
\* blocks has been written to the output.
C12_NoPartialOutput ==
    /\ decoded.status = "err" => decoded.bytes = <<>>
    /\ d_pc = "failed" => d_written = <<>>

\* decode_file_streaming failed on the second buffer of a file, every read
\* having filled the buffer, after the first buffer was decoded and written.
PartialOutputLeft ==
    /\ d_pc = "failed"
    /\ d_err = "InvalidBase64"
    /\ ~d_short
    /\ d_reader_pos > DecodeBufferSize
    /\ Len(d_written) = (DecodeBufferSize \div 4) * 3

\* C13: when the length of the file is a multiple of 4, every block handed
\* to the decoder has a length that is a multiple of 4, whatever the reads
\* return.
C13_BlocksMultipleOf4 ==
    (Len(d_file) % 4 = 0 /\ d_pc # "start") => Len(base64_str) % 4 = 0

\* A file that is the padded encoding of some bytes was refused: a read
\* returned a number of characters that is not a multiple of 4 and the block
\* went to the decoder as it was.
ValidFileRefused ==
    /\ d_file \in DFileValid
    /\ d_pc = "failed"
    /\ d_err = "InvalidBase64"
    /\ Len(base64_str) % 4 # 0

---------------------------------------------------------------------------
(* Properties of the two file operations together (SpecFiles) *)

\* C20: on success each file operation returns its count of bytes:
\* encode_file_streaming the sum of what its reads returned, which is the
\* length of the source file; decode_file_streaming the sum of the bytes its
\* blocks decoded to, which is the length of what it wrote, and for a file
\* the encoder wrote the same count the encoder returned.  A count is
\* returned only once the source is read to its end and all the output
\* written; a failed run returns none.
C20_BytesReturned ==
    /\ file_ret # -1 =>
          /\ file_pc = "done"
          /\ file_ret = total_bytes
          /\ file_ret = Len(input)
          /\ reader_pos = Len(input)
          /\ Len(written) = EncodedLen(Len(input))
    /\ file_pc = "done" => file_ret # -1
    /\ d_ret # -1 =>
          /\ d_pc = "done"
          /\ d_ret = d_total_bytes
          /\ d_ret = Len(d_written)
          /\ d_reader_pos = Len(d_file)
          /\ d_file = written => d_ret = file_ret
    /\ d_pc = "done" => d_ret # -1
    /\ d_pc = "failed" => d_ret = -1

\* Both operations returned, each after several reads: the decoder's count
\* is the encoder's, the length of the original file.
C20_Witness ==
    /\ file_pc = "done"
    /\ d_pc = "done"
    /\ Len(input) > EncodeBufferSize
    /\ Len(d_file) > DecodeBufferSize
    /\ file_ret = Len(input)
    /\ d_ret = file_ret
    /\ d_ret # Len(d_file)

\* C22: decode_file_streaming run on the file encode_file_streaming wrote
\* succeeds and writes exactly the original content, whatever byte counts
\* the reads of either operation return.
C22_FileRoundTrip ==
    (file_pc = "done" /\ d_file = written) =>
        /\ d_pc # "failed"
        /\ d_pc = "done" => d_written = input

\* The decoder refused the file the encoder wrote for a non-empty source: a
\* read gave it a block that stops inside a 4-character group.
RoundTripRefused ==
    /\ file_pc = "done"
    /\ Len(input) > 0
    /\ d_file = written
    /\ d_file = StdEncode(input)
    /\ d_pc = "failed"
    /\ d_err = "InvalidBase64"
    /\ Len(base64_str) % 4 # 0

\* What the code keeps: when every read of the decoder returns a multiple of
\* 4 characters (in particular when every read fills the buffer or reaches
\* the end of the file), the decoder succeeds, and whenever it succeeds it has
\* written the original content.
RoundTripWhenReadsAligned ==
    (file_pc = "done" /\ d_file = written) =>
        /\ (d_pc = "failed" => (d_short /\ Len(base64_str) % 4 # 0))
        /\ (d_pc = "loop" /\ d_reader_pos % 4 = 0) =>
               d_written = SubSeq(input, 1, Min(Len(input), (d_reader_pos \div 4) * 3))
        /\ d_pc = "done" => d_written = input

===========================================================================
